---- MODULE Spec2Model ----
(***************************************************************************)
(* Model of the two entry points of the Jira test-cycle completion tracker *)
(*   src/jira_testcycle_tracker.py  (class JiraTestCycleTracker, main)     *)
(*   src/main.py                    (load_config .. main)                  *)
(* Each run is a single linear pass: configuration, cycle listing, one     *)
(* case query and aggregation per cycle, report writing, process exit.     *)
(***************************************************************************)
EXTENDS Integers, Sequences, FiniteSets, TLC

VARIABLES
    variant,        \* which script runs: "tracker" or "main"
    env,            \* the environment / config.json the run finds
    page_size,      \* results the search endpoint returns per request
    pc,             \* position of the run in its script
    exit_code,      \* {} while running, {code} once the process has exited
    raised,         \* the exception that ended the run, "none" otherwise
    listing,        \* the cycle listing query: "pending", "ok" or "failed"
    network_calls,  \* requests issued to the tracker so far
    log,            \* log and print records: level, event, cycle key
    server_cycles,  \* number of cycles matching the listing query on the server
    test_cycles,    \* the listing as the script holds it (cycle ids)
    idx,            \* loop position in test_cycles
    fetched,        \* per processed cycle: "ok" or "failed"
    server_cases,   \* the cases the server holds for the cycle queried last
    test_cases,     \* the cases the script received for that cycle
    tracker_result, \* outcome of JiraTestCycleTracker.calculate_completion_percentage
    main_result,    \* outcome of main.calculate_completion_percentage
    stats,          \* rows collected for the report
    files           \* state of the output paths: csv, html

vars == <<variant, env, page_size, pc, exit_code, raised, listing,
          network_calls, log, server_cycles, test_cycles, idx, fetched, server_cases, test_cases,
          tracker_result, main_result, stats, files>>

(***************************************************************************)
(* Bounds                                                                  *)
(***************************************************************************)
MaxCases == 4

MaxCycles == 3

MaxPageSize == 3

MaxRunCases == 2

(***************************************************************************)
(* Status names.  A string is a sequence of characters so that str.lower   *)
(* is computed, character by character.                                    *)
(***************************************************************************)
UpperChars == <<"A","B","C","D","E","F","G","H","I","J","K","L","M",
                "N","O","P","Q","R","S","T","U","V","W","X","Y","Z">>

LowerChars == <<"a","b","c","d","e","f","g","h","i","j","k","l","m",
                "n","o","p","q","r","s","t","u","v","w","x","y","z">>

LowerChar(c) ==
    IF \E k \in DOMAIN UpperChars : UpperChars[k] = c
    THEN LowerChars[CHOOSE k \in DOMAIN UpperChars : UpperChars[k] = c]
    ELSE c

\* a comparison that forgets to lower-case the status
LowerIdentity(s) == s

Lower(s) == [k \in DOMAIN s |-> LowerChar(s[k])]

Done == <<"D","o","n","e">>

done == <<"d","o","n","e">>

Passed == <<"P","a","s","s","e","d">>

passed == <<"p","a","s","s","e","d">>

Failed == <<"F","a","i","l","e","d">>

failed == <<"f","a","i","l","e","d">>

Blocked == <<"B","l","o","c","k","e","d">>

blocked == <<"b","l","o","c","k","e","d">>

\* status names the server may report
Statuses == {Done, done, Passed, Failed, Blocked}

\* the statuses the runs of the whole script draw from
RunStatuses == {Done, Failed}

TrackerCompleted == {done, passed}

MainCompleted == {passed, failed, blocked}

SeqsUpTo(S, n) == UNION {[1..k -> S] : k \in 0..n}

CaseLists == SeqsUpTo(Statuses, MaxCases)

RunCaseLists == SeqsUpTo(RunStatuses, MaxRunCases)

(***************************************************************************)
(* Python values and outcomes                                              *)
(***************************************************************************)
None == [py |-> "None"]

Pending == [exc |-> "pending"]

Return(v) == [exc |-> "none", value |-> v]

Raise(e) == [exc |-> e]

EmptyDict == [k \in {} |-> 0]

DictGet(d, k, default) == IF k \in DOMAIN d THEN d[k] ELSE default

DictSet(d, k, v) == [x \in DOMAIN d \cup {k} |-> IF x = k THEN v ELSE d[x]]

Front(s) == SubSeq(s, 1, Len(s) - 1)

RECURSIVE SumValues(_)
SumValues(d) ==
    IF DOMAIN d = {} THEN 0
    ELSE LET k == CHOOSE x \in DOMAIN d : TRUE
         IN d[k] + SumValues([x \in DOMAIN d \ {k} |-> d[x]])

(***************************************************************************)
(* Aggregation                                                             *)
(***************************************************************************)
\* round(n / d * 100, 2) in hundredths of a percent, ties to even
Round2(n, d) ==
    LET q == (n * 10000) \div d
        r == (n * 10000) % d
    IN IF 2 * r < d THEN q
       ELSE IF 2 * r > d THEN q + 1
       ELSE IF q % 2 = 0 THEN q ELSE q + 1

\* status_counts[status] = 1, without the .get(status, 0) + ...
RECURSIVE StatusCountsOverwrite(_)
StatusCountsOverwrite(cases) ==
    IF cases = <<>> THEN EmptyDict
    ELSE DictSet(StatusCountsOverwrite(Front(cases)), cases[Len(cases)], 1)

\* the loop's status_counts[status] = status_counts.get(status, 0) + 1
RECURSIVE StatusCounts(_)
StatusCounts(cases) ==
    IF cases = <<>> THEN EmptyDict
    ELSE LET prev == StatusCounts(Front(cases))
             status == cases[Len(cases)]
         IN DictSet(prev, status, DictGet(prev, status, 0) + 1)

\* completed += 2 in place of completed += 1
RECURSIVE CountCompletedTwice(_, _)
CountCompletedTwice(cases, completed) ==
    IF cases = <<>> THEN 0
    ELSE CountCompletedTwice(Front(cases), completed)
         + (IF Lower(cases[Len(cases)]) \in completed THEN 2 ELSE 0)

\* the loop's `if status.lower() in [...]: completed += 1`
RECURSIVE CountCompleted(_, _)
CountCompleted(cases, completed) ==
    IF cases = <<>> THEN 0
    ELSE CountCompleted(Front(cases), completed)
         + (IF Lower(cases[Len(cases)]) \in completed THEN 1 ELSE 0)

\* the aggregation without its `if total_cases == 0` return
TrackerCompletionNoGuard(key, cases) ==
    LET total_cases == Len(cases)
        completed_cases == CountCompleted(cases, TrackerCompleted)
    IN IF total_cases = 0 THEN Raise("ZeroDivisionError")
       ELSE Return([cycle_key |-> key,
                    total_cases |-> total_cases,
                    completed_cases |-> completed_cases,
                    completion_percentage |-> Round2(completed_cases, total_cases),
                    status_breakdown |-> StatusCounts(cases)])

\* JiraTestCycleTracker.calculate_completion_percentage once the response is in
TrackerCompletion(key, cases) ==
    LET total_cases == Len(cases)
        completed_cases == CountCompleted(cases, TrackerCompleted)
    IN IF total_cases = 0
       THEN Return([cycle_key |-> key,
                    total_cases |-> 0,
                    completed_cases |-> 0,
                    completion_percentage |-> 0,
                    status_breakdown |-> EmptyDict])
       ELSE Return([cycle_key |-> key,
                    total_cases |-> total_cases,
                    completed_cases |-> completed_cases,
                    completion_percentage |-> Round2(completed_cases, total_cases),
                    status_breakdown |-> StatusCounts(cases)])

\* main.calculate_completion_percentage once the search has returned; the
\* unrounded float (completed / total) * 100 is kept as the fraction num/den
MainCompletion(cases) ==
    LET total_tests == Len(cases)
        completed_tests == CountCompleted(cases, MainCompleted)
    IN IF total_tests = 0
       THEN Return([num |-> 0, den |-> 1])
       ELSE Return([num |-> completed_tests * 100, den |-> total_tests])

(***************************************************************************)
(* Environment                                                             *)
(***************************************************************************)
\* what os.getenv finds for the tracker script (TRUE: set and non-empty)
TrackerEnvs ==
    [JIRA_URL : BOOLEAN, JIRA_TOKEN : BOOLEAN, JIRA_PROJECT_KEY : BOOLEAN,
     DAYS_TO_TRACK : {"unset", "int", "nonint"},
     config_json : {"unused"}, save_csv : {TRUE}]

\* what main.py finds as config.json: absent, not JSON, JSON without the
\* "jira" section, JSON without jira.project_key, or complete
MainEnvs ==
    [JIRA_URL : {FALSE}, JIRA_TOKEN : {FALSE}, JIRA_PROJECT_KEY : {FALSE},
     DAYS_TO_TRACK : {"unset"},
     config_json : {"absent", "malformed", "no_jira", "no_project_key", "ok"},
     save_csv : BOOLEAN]

\* an all([...]) check that leaves out self.project_key
LoadConfigIgnoresProjectKey(e) ==
    IF e.DAYS_TO_TRACK = "nonint" THEN Raise("ValueError")
    ELSE IF ~(e.JIRA_URL /\ e.JIRA_TOKEN) THEN Raise("ValueError")
    ELSE Return(None)

\* JiraTestCycleTracker._load_config
TrackerLoadConfig(e) ==
    IF e.DAYS_TO_TRACK = "nonint" THEN Raise("ValueError")
    ELSE IF ~(e.JIRA_URL /\ e.JIRA_TOKEN /\ e.JIRA_PROJECT_KEY)
    THEN Raise("ValueError")
    ELSE Return(None)

\* main.load_config
MainLoadConfig(e) ==
    CASE e.config_json = "absent" -> Raise("FileNotFoundError")
      [] e.config_json = "malformed" -> Raise("ValueError")
      [] OTHER -> Return(e.config_json)

Min(a, b) == IF a <= b THEN a ELSE b

\* the one page a search request gets back: no request asks for a second one
FirstPage(items, size) == SubSeq(items, 1, Min(Len(items), size))

CycleIds(n) == [k \in 1..n |-> k]

LogRec(level, event, key) == [level |-> level, event |-> event, key |-> key]

NoFiles == [csv |-> "absent", html |-> "absent", csv_rows |-> <<>>]

\* the process ends: sys.exit(1) / return 1 after an exception, 0 otherwise
Exit(exc) ==
    /\ pc' = "exited"
    /\ raised' = exc
    /\ exit_code' = IF exc = "none" THEN {0} ELSE {1}

(***************************************************************************)
(* jira_testcycle_tracker.py                                               *)
(***************************************************************************)
\* JiraTestCycleTracker.get_test_cycles: a request error is logged and the
\* empty list returned
TrackerGetTestCycles(response) ==
    IF response.ok THEN Return(response.issues) ELSE Return(<<>>)

\* the calculation without its except clause
TrackerCalculateRaises(key, response) ==
    IF response.ok THEN TrackerCompletion(key, response.issues)
    ELSE Raise("RequestException")

\* JiraTestCycleTracker.calculate_completion_percentage: a request error is
\* logged and None returned
TrackerCalculate(key, response) ==
    IF response.ok THEN TrackerCompletion(key, response.issues)
    ELSE Return(None)

\* a row of generate_reports' stats list
TrackerRow(key, cycle_stats) ==
    [Cycle |-> key,
     TotalCases |-> cycle_stats.total_cases,
     CompletedCases |-> cycle_stats.completed_cases,
     CompletionPct |-> cycle_stats.completion_percentage,
     StatusBreakdown |-> cycle_stats.status_breakdown]

\* JiraTestCycleTracker.__init__ under main's try
TrackerConstruct ==
    /\ variant = "tracker" /\ pc = "start"
    /\ LET r == TrackerLoadConfig(env)
       IN IF r.exc # "none"
          THEN /\ log' = Append(log, LogRec("ERROR", "An error occurred", 0))
               /\ Exit(r.exc)
          ELSE \E mkdir_ok \in BOOLEAN :
                  IF mkdir_ok
                  THEN /\ pc' = "generate_reports"
                       /\ UNCHANGED <<log, raised, exit_code>>
                  ELSE /\ log' = Append(log, LogRec("ERROR", "An error occurred", 0))
                       /\ Exit("OSError")
    /\ UNCHANGED <<variant, env, page_size, listing, network_calls,
                   server_cycles, test_cycles, idx, fetched, server_cases,
                   test_cases, tracker_result, main_result, stats, files>>

\* generate_reports up to the `if not test_cycles` return
TrackerListCycles ==
    /\ variant = "tracker" /\ pc = "generate_reports"
    /\ network_calls' = network_calls + 1
    /\ \E ok \in BOOLEAN, n \in 0..MaxCycles :
          LET response == [ok |-> ok, issues |-> FirstPage(CycleIds(n), page_size)]
              r == TrackerGetTestCycles(response)
              log1 == Append(log, LogRec("INFO", "Generating reports", 0))
              log2 == IF ok THEN log1
                      ELSE Append(log1, LogRec("ERROR", "Error retrieving test cycles", 0))
          IN /\ ~ok => n = 0
             /\ server_cycles' = n
             /\ listing' = IF ok THEN "ok" ELSE "failed"
             /\ IF r.exc # "none"
                THEN /\ test_cycles' = <<>>
                     /\ idx' = idx
                     /\ log' = Append(log2, LogRec("ERROR", "An error occurred", 0))
                     /\ Exit(r.exc)
                ELSE /\ test_cycles' = r.value
                     /\ IF r.value = <<>>
                        THEN /\ log' = Append(Append(log2,
                                         LogRec("WARNING", "No test cycles found", 0)),
                                         LogRec("INFO", "Report generation completed", 0))
                             /\ idx' = idx
                             /\ Exit("none")
                        ELSE /\ log' = log2
                             /\ idx' = 1
                             /\ pc' = "calculate"
                             /\ UNCHANGED <<raised, exit_code>>
    /\ UNCHANGED <<variant, env, page_size, fetched, server_cases, test_cases,
                   tracker_result, main_result, stats, files>>

\* one iteration of generate_reports' loop over test_cycles
TrackerCalculateStep ==
    /\ variant = "tracker" /\ pc = "calculate" /\ idx <= Len(test_cycles)
    /\ network_calls' = network_calls + 1
    /\ \E ok \in BOOLEAN, cases \in RunCaseLists :
          LET key == test_cycles[idx]
              response == [ok |-> ok, issues |-> FirstPage(cases, page_size)]
              r == TrackerCalculate(key, response)
              log1 == IF ok THEN log
                      ELSE Append(log, LogRec("ERROR", "Error calculating completion", key))
          IN /\ ~ok => cases = <<>>
             /\ server_cases' = cases
             /\ test_cases' = IF ok THEN response.issues ELSE <<>>
             /\ tracker_result' = r
             /\ fetched' = Append(fetched, IF ok THEN "ok" ELSE "failed")
             /\ IF r.exc # "none"
                THEN /\ log' = Append(log1, LogRec("ERROR", "An error occurred", 0))
                     /\ Exit(r.exc)
                     /\ UNCHANGED <<stats, idx>>
                ELSE /\ log' = log1
                     /\ stats' = IF r.value # None
                                 THEN Append(stats, TrackerRow(key, r.value))
                                 ELSE stats
                     /\ idx' = idx + 1
                     /\ pc' = IF idx = Len(test_cycles) THEN "report" ELSE "calculate"
                     /\ UNCHANGED <<raised, exit_code>>
    /\ UNCHANGED <<variant, env, page_size, listing, server_cycles, test_cycles,
                   main_result, files>>

WriteOutcomes == {"ok", "fail_open", "fail_partial"}

\* generate_reports from `if not stats` to df.to_csv(csv_path)
TrackerWriteCsv ==
    /\ variant = "tracker" /\ pc = "report"
    /\ IF stats = <<>>
       THEN /\ log' = Append(Append(log, LogRec("WARNING", "No statistics to report", 0)),
                             LogRec("INFO", "Report generation completed", 0))
            /\ Exit("none")
            /\ UNCHANGED files
       ELSE \E outcome \in WriteOutcomes :
               CASE outcome = "ok" ->
                      /\ files' = [files EXCEPT !.csv = "complete", !.csv_rows = stats]
                      /\ log' = Append(log, LogRec("INFO", "CSV report generated", 0))
                      /\ pc' = "visualize"
                      /\ UNCHANGED <<raised, exit_code>>
                 [] outcome = "fail_open" ->
                      /\ log' = Append(log, LogRec("ERROR", "An error occurred", 0))
                      /\ Exit("OSError")
                      /\ UNCHANGED files
                 [] outcome = "fail_partial" ->
                      /\ files' = [files EXCEPT !.csv = "partial"]
                      /\ log' = Append(log, LogRec("ERROR", "An error occurred", 0))
                      /\ Exit("OSError")
    /\ UNCHANGED <<variant, env, page_size, listing, network_calls, server_cycles,
                   test_cycles, idx, fetched, server_cases, test_cases,
                   tracker_result, main_result, stats>>

\* _create_visualization's fig.write_html, then main's closing log line
TrackerWriteHtml ==
    /\ variant = "tracker" /\ pc = "visualize"
    /\ \E outcome \in WriteOutcomes :
          CASE outcome = "ok" ->
                 /\ files' = [files EXCEPT !.html = "complete"]
                 /\ log' = Append(Append(log, LogRec("INFO", "HTML visualization generated", 0)),
                                  LogRec("INFO", "Report generation completed", 0))
                 /\ Exit("none")
            [] outcome = "fail_open" ->
                 /\ log' = Append(log, LogRec("ERROR", "An error occurred", 0))
                 /\ Exit("OSError")
                 /\ UNCHANGED files
            [] outcome = "fail_partial" ->
                 /\ files' = [files EXCEPT !.html = "partial"]
                 /\ log' = Append(log, LogRec("ERROR", "An error occurred", 0))
                 /\ Exit("OSError")
    /\ UNCHANGED <<variant, env, page_size, listing, network_calls, server_cycles,
                   test_cycles, idx, fetched, server_cases, test_cases,
                   tracker_result, main_result, stats>>

(***************************************************************************)
(* main.py                                                                 *)
(***************************************************************************)
PrintError == LogRec("PRINT", "Error", 0)

\* a row of main's test_cycles_data
MainRow(key, percentage) == [cycle_name |-> key, percentage |-> percentage]

\* main: config = load_config()
MainStart ==
    /\ variant = "main" /\ pc = "start"
    /\ LET r == MainLoadConfig(env)
       IN IF r.exc # "none"
          THEN /\ log' = Append(log, PrintError)
               /\ Exit(r.exc)
          ELSE /\ pc' = "connect"
               /\ UNCHANGED <<log, raised, exit_code>>
    /\ UNCHANGED <<variant, env, page_size, listing, network_calls,
                   server_cycles, test_cycles, idx, fetched, server_cases,
                   test_cases, tracker_result, main_result, stats, files>>

\* connect_to_jira: config['jira'] is read, then JIRA(...) contacts the server
MainConnect ==
    /\ variant = "main" /\ pc = "connect"
    /\ IF env.config_json = "no_jira"
       THEN /\ log' = Append(log, PrintError)
            /\ Exit("KeyError")
            /\ UNCHANGED network_calls
       ELSE /\ network_calls' = network_calls + 1
            /\ \E ok \in BOOLEAN :
                  IF ok
                  THEN /\ pc' = "get_test_cycle_data"
                       /\ UNCHANGED <<log, raised, exit_code>>
                  ELSE /\ log' = Append(log, PrintError)
                       /\ Exit("ConnectionError")
    /\ UNCHANGED <<variant, env, page_size, listing, server_cycles, test_cycles,
                   idx, fetched, server_cases, test_cases, tracker_result,
                   main_result, stats, files>>

\* get_test_cycle_data, then main's print before the loop
MainListCycles ==
    /\ variant = "main" /\ pc = "get_test_cycle_data"
    /\ IF env.config_json = "no_project_key"
       THEN /\ log' = Append(log, PrintError)
            /\ Exit("KeyError")
            /\ UNCHANGED <<network_calls, listing, server_cycles, test_cycles, idx>>
       ELSE /\ network_calls' = network_calls + 1
            /\ \E ok \in BOOLEAN, n \in 0..MaxCycles :
                  /\ ~ok => n = 0
                  /\ server_cycles' = n
                  /\ listing' = IF ok THEN "ok" ELSE "failed"
                  /\ IF ok
                     THEN /\ test_cycles' = FirstPage(CycleIds(n), page_size)
                          /\ log' = Append(log, LogRec("PRINT", "Processing test cycles", 0))
                          /\ idx' = 1
                          /\ pc' = IF test_cycles' = <<>> THEN "generate_report"
                                   ELSE "calculate"
                          /\ UNCHANGED <<raised, exit_code>>
                     ELSE /\ log' = Append(log, PrintError)
                          /\ Exit("Exception")
                          /\ UNCHANGED <<test_cycles, idx>>
    /\ UNCHANGED <<variant, env, page_size, fetched, server_cases, test_cases,
                   tracker_result, main_result, stats, files>>

\* one iteration of main's loop: calculate_completion_percentage and the append
MainCalculateStep ==
    /\ variant = "main" /\ pc = "calculate" /\ idx <= Len(test_cycles)
    /\ network_calls' = network_calls + 1
    /\ \E ok \in BOOLEAN, cases \in RunCaseLists :
          LET key == test_cycles[idx]
              issues == FirstPage(cases, page_size)
              r == IF ok THEN MainCompletion(issues) ELSE Raise("JIRAError")
          IN /\ ~ok => cases = <<>>
             /\ server_cases' = cases
             /\ test_cases' = IF ok THEN issues ELSE <<>>
             /\ main_result' = r
             /\ fetched' = Append(fetched, IF ok THEN "ok" ELSE "failed")
             /\ IF r.exc # "none"
                THEN /\ log' = Append(log, PrintError)
                     /\ Exit(r.exc)
                     /\ UNCHANGED <<stats, idx>>
                ELSE /\ stats' = Append(stats, MainRow(key, r.value))
                     /\ idx' = idx + 1
                     /\ pc' = IF idx = Len(test_cycles) THEN "generate_report"
                              ELSE "calculate"
                     /\ UNCHANGED <<log, raised, exit_code>>
    /\ UNCHANGED <<variant, env, page_size, listing, server_cycles, test_cycles,
                   tracker_result, files>>

\* generate_report up to fig.write_html: df['cycle_name'] on a frame built
\* from no rows has no such column; the CSV is written next only if save_csv
MainGenerateReport ==
    /\ variant = "main" /\ pc = "generate_report"
    /\ IF stats = <<>>
       THEN /\ log' = Append(log, PrintError)
            /\ Exit("KeyError")
            /\ UNCHANGED files
       ELSE \E makedirs_ok \in BOOLEAN, outcome \in WriteOutcomes :
               IF ~makedirs_ok
               THEN /\ outcome = "ok"
                    /\ log' = Append(log, PrintError)
                    /\ Exit("OSError")
                    /\ UNCHANGED files
               ELSE CASE outcome = "ok" ->
                           /\ files' = [files EXCEPT !.html = "complete"]
                           /\ IF env.save_csv
                              THEN /\ pc' = "write_csv"
                                   /\ UNCHANGED <<log, raised, exit_code>>
                              ELSE /\ log' = Append(log, LogRec("PRINT",
                                                 "Report generated successfully", 0))
                                   /\ Exit("none")
                      [] outcome = "fail_open" ->
                           /\ log' = Append(log, PrintError)
                           /\ Exit("OSError")
                           /\ UNCHANGED files
                      [] outcome = "fail_partial" ->
                           /\ files' = [files EXCEPT !.html = "partial"]
                           /\ log' = Append(log, PrintError)
                           /\ Exit("OSError")
    /\ UNCHANGED <<variant, env, page_size, listing, network_calls, server_cycles,
                   test_cycles, idx, fetched, server_cases, test_cases,
                   tracker_result, main_result, stats>>

\* generate_report's df.to_csv, then main's closing print and return 0
MainWriteCsv ==
    /\ variant = "main" /\ pc = "write_csv"
    /\ \E outcome \in WriteOutcomes :
          CASE outcome = "ok" ->
                 /\ files' = [files EXCEPT !.csv = "complete", !.csv_rows = stats]
                 /\ log' = Append(log, LogRec("PRINT", "Report generated successfully", 0))
                 /\ Exit("none")
            [] outcome = "fail_open" ->
                 /\ log' = Append(log, PrintError)
                 /\ Exit("OSError")
                 /\ UNCHANGED files
            [] outcome = "fail_partial" ->
                 /\ files' = [files EXCEPT !.csv = "partial"]
                 /\ log' = Append(log, PrintError)
                 /\ Exit("OSError")
    /\ UNCHANGED <<variant, env, page_size, listing, network_calls, server_cycles,
                   test_cycles, idx, fetched, server_cases, test_cases,
                   tracker_result, main_result, stats>>

(***************************************************************************)
(* A run of either script                                                  *)
(***************************************************************************)
Idle ==
    /\ exit_code = {}
    /\ raised = "none"
    /\ listing = "pending"
    /\ network_calls = 0
    /\ log = <<>>
    /\ server_cycles = 0
    /\ test_cycles = <<>>
    /\ idx = 0
    /\ fetched = <<>>
    /\ server_cases = <<>>
    /\ tracker_result = Pending
    /\ main_result = Pending
    /\ stats = <<>>
    /\ files = NoFiles

Init ==
    /\ variant \in {"tracker", "main"}
    /\ env \in IF variant = "tracker" THEN TrackerEnvs ELSE MainEnvs
    /\ page_size \in 1..MaxPageSize
    /\ pc = "start"
    /\ test_cases = <<>>
    /\ Idle

Next ==
    \/ TrackerConstruct
    \/ TrackerListCycles
    \/ TrackerCalculateStep
    \/ TrackerWriteCsv
    \/ TrackerWriteHtml
    \/ MainStart
    \/ MainConnect
    \/ MainListCycles
    \/ MainCalculateStep
    \/ MainGenerateReport
    \/ MainWriteCsv

Spec == Init /\ [][Next]_vars

(***************************************************************************)
(* The aggregation alone, applied to every case list within the bound      *)
(***************************************************************************)
AggEnv ==
    [JIRA_URL |-> TRUE, JIRA_TOKEN |-> TRUE, JIRA_PROJECT_KEY |-> TRUE,
     DAYS_TO_TRACK |-> "unset", config_json |-> "ok", save_csv |-> TRUE]

InitAgg ==
    /\ variant = "aggregate"
    /\ env = AggEnv
    /\ page_size = MaxCases
    /\ pc = "aggregate"
    /\ test_cases \in CaseLists
    /\ Idle

\* JiraTestCycleTracker.calculate_completion_percentage on a served case list
AggTracker ==
    /\ pc = "aggregate" /\ tracker_result = Pending
    /\ tracker_result' = TrackerCalculate(1, [ok |-> TRUE, issues |-> test_cases])
    /\ UNCHANGED <<variant, env, page_size, pc, exit_code, raised, listing,
                   network_calls, log, server_cycles, test_cycles, idx, fetched,
                   server_cases, test_cases, main_result, stats, files>>

\* main.calculate_completion_percentage on a served case list
AggMain ==
    /\ pc = "aggregate" /\ main_result = Pending
    /\ main_result' = MainCompletion(test_cases)
    /\ UNCHANGED <<variant, env, page_size, pc, exit_code, raised, listing,
                   network_calls, log, server_cycles, test_cycles, idx, fetched,
                   server_cases, test_cases, tracker_result, stats, files>>

NextAgg == AggTracker \/ AggMain

SpecAgg == InitAgg /\ [][NextAgg]_vars

(***************************************************************************)
(* Properties of the aggregation (checked under SpecAgg)                   *)
(***************************************************************************)
TrackerDone == tracker_result # Pending

MainDone == main_result # Pending

\* what lower-casing makes of each status name the server reports
LowerCased(status) ==
    CASE status = Done -> done
      [] status = done -> done
      [] status = Passed -> passed
      [] status = Failed -> failed
      [] status = Blocked -> blocked

Occurrences(cases, S) == Cardinality({k \in DOMAIN cases : cases[k] \in S})

\* C1: for every list of linked test cases the completion percentage is
\* between 0 and 100 inclusive, in the tracker class (hundredths of a percent,
\* 0..10000) and in main.py (the fraction num/den).
C1_PercentageInRange ==
    /\ TrackerDone =>
          /\ tracker_result.exc = "none"
          /\ tracker_result.value.completion_percentage >= 0
          /\ tracker_result.value.completion_percentage <= 10000
    /\ MainDone =>
          /\ main_result.exc = "none"
          /\ main_result.value.den > 0
          /\ main_result.value.num >= 0
          /\ main_result.value.num <= 100 * main_result.value.den

C1_Witness ==
    /\ TrackerDone /\ MainDone
    /\ Len(test_cases) = 3
    /\ tracker_result.value.completion_percentage = 6667
    /\ main_result.value.num = 100
    /\ main_result.value.den = 3

\* C2: with zero linked test cases the aggregation divides nothing and returns
\* percentage 0, total 0, completed 0 and, in the tracker class, an empty
\* status breakdown; the result is a normal return, not an exception.
C2_ZeroCasesGiveZero ==
    test_cases = <<>> =>
       /\ TrackerDone =>
             tracker_result = Return([cycle_key |-> 1,
                                      total_cases |-> 0,
                                      completed_cases |-> 0,
                                      completion_percentage |-> 0,
                                      status_breakdown |-> EmptyDict])
       /\ MainDone => main_result = Return([num |-> 0, den |-> 1])

C2_Witness ==
    /\ test_cases = <<>>
    /\ TrackerDone /\ MainDone
    /\ tracker_result.exc = "none"
    /\ DOMAIN tracker_result.value.status_breakdown = {}

\* C3: the counts of the status breakdown returned by the tracker class sum
\* to total_cases (the number of cases served), and completed_cases never
\* exceeds total_cases.
C3_BreakdownSumsToTotal ==
    TrackerDone =>
       /\ tracker_result.exc = "none"
       /\ tracker_result.value.total_cases = Len(test_cases)
       /\ SumValues(tracker_result.value.status_breakdown)
             = tracker_result.value.total_cases
       /\ tracker_result.value.completed_cases >= 0
       /\ tracker_result.value.completed_cases <= tracker_result.value.total_cases

C3_Witness ==
    /\ TrackerDone
    /\ tracker_result.value.total_cases = 4
    /\ tracker_result.value.completed_cases = 2
    /\ Cardinality(DOMAIN tracker_result.value.status_breakdown) = 2
    /\ \E s \in DOMAIN tracker_result.value.status_breakdown :
          tracker_result.value.status_breakdown[s] = 2

\* C4: a case counts as completed iff its lower-cased status is in the
\* completed-status set of the script ({done, passed} in the tracker class,
\* {passed, failed, blocked} in main.py), while the breakdown is keyed by the
\* status as served; statuses [Done, Failed, Passed, Done] give the tracker
\* class total 4, completed 3, 75.00 %, breakdown {Done: 2, Failed: 1, Passed: 1}.
C4_CompletedIffLowerCasedInSet ==
    /\ TrackerDone =>
          /\ tracker_result.exc = "none"
          /\ tracker_result.value.completed_cases
                = Occurrences(test_cases,
                              {s \in Statuses : LowerCased(s) \in TrackerCompleted})
          /\ test_cases # <<>> =>
                /\ DOMAIN tracker_result.value.status_breakdown
                      = {test_cases[k] : k \in DOMAIN test_cases}
                /\ \A s \in DOMAIN tracker_result.value.status_breakdown :
                      tracker_result.value.status_breakdown[s]
                         = Occurrences(test_cases, {s})
          /\ test_cases = <<Done, Failed, Passed, Done>> =>
                tracker_result.value =
                   [cycle_key |-> 1,
                    total_cases |-> 4,
                    completed_cases |-> 3,
                    completion_percentage |-> 7500,
                    status_breakdown |->
                       [s \in {Done, Failed, Passed} |-> IF s = Done THEN 2 ELSE 1]]
    /\ (MainDone /\ test_cases # <<>>) =>
          /\ main_result.exc = "none"
          /\ main_result.value.den = Len(test_cases)
          /\ main_result.value.num
                = 100 * Occurrences(test_cases,
                                    {s \in Statuses : LowerCased(s) \in MainCompleted})

C4_Witness ==
    /\ test_cases = <<Done, Failed, Passed, Done>>
    /\ TrackerDone /\ MainDone
    /\ tracker_result.value.completed_cases = 3
    /\ tracker_result.value.completion_percentage = 7500
    /\ main_result.value.num = 200

(***************************************************************************)
(* Properties of a whole run (checked under Spec)                          *)
(***************************************************************************)
FailedAt == {k \in DOMAIN fetched : fetched[k] = "failed"}

RECURSIVE OkCycles(_)
\* the listed cycles, in listing order, whose case query succeeded
OkCycles(n) ==
    IF n = 0 THEN <<>>
    ELSE IF fetched[n] = "ok" THEN Append(OkCycles(n - 1), test_cycles[n])
         ELSE OkCycles(n - 1)

\* C5: both queries accumulate pages until a short page, so what the script
\* holds equals the server's full item set whatever the page size.
C5_FetchReturnsFullItemSet ==
    /\ listing = "ok" => test_cycles = CycleIds(server_cycles)
    /\ (fetched # <<>> /\ fetched[Len(fetched)] = "ok") => test_cases = server_cases

\* C6: with JIRA_URL, JIRA_TOKEN or JIRA_PROJECT_KEY unset or a non-integer
\* DAYS_TO_TRACK (tracker script), or an absent or malformed config.json
\* (main.py), the run goes from its start straight to a non-zero exit and
\* issues no network call.
ConfigInvalid ==
    \/ /\ variant = "tracker"
       /\ \/ ~env.JIRA_URL
          \/ ~env.JIRA_TOKEN
          \/ ~env.JIRA_PROJECT_KEY
          \/ env.DAYS_TO_TRACK = "nonint"
    \/ /\ variant = "main"
       /\ env.config_json \in {"absent", "malformed"}

C6_ConfigErrorBeforeNetwork ==
    ConfigInvalid =>
       /\ network_calls = 0
       /\ pc \in {"start", "exited"}
       /\ pc = "exited" => (exit_code = {1} /\ raised # "none")

C6_Witness ==
    /\ variant = "tracker"
    /\ env.JIRA_URL /\ env.JIRA_TOKEN /\ ~env.JIRA_PROJECT_KEY
    /\ env.DAYS_TO_TRACK = "int"
    /\ pc = "exited"
    /\ exit_code = {1}
    /\ network_calls = 0

\* C7: a failed cycle-listing query is fatal in both scripts: no report is
\* written and the exit code is non-zero.
C7_ListingFailureIsFatal ==
    (listing = "failed" /\ pc = "exited") =>
       /\ files = NoFiles
       /\ exit_code # {0}

\* C8 as claimed: in both scripts a failed case query skips that cycle alone
\* with a logged message naming it, the run goes on to exit code 0 unless the
\* sink fails, and the report holds the other cycles once each in listing order.
C8_FetchFailureSkipsCycleOnly ==
    (pc = "exited" /\ FailedAt # {} /\ raised # "OSError") =>
       /\ exit_code = {0}
       /\ Len(fetched) = Len(test_cycles)
       /\ \A k \in FailedAt :
             \E j \in DOMAIN log : /\ log[j].level \in {"WARNING", "ERROR"}
                                   /\ log[j].key = test_cycles[k]
       /\ Len(stats) = Len(OkCycles(Len(fetched)))

\* C8 amended: in the tracker script a failed case query never ends the run;
\* the cycle is skipped with an error-level log record naming it, every
\* listed cycle is still queried, the rows collected are exactly the cycles
\* whose query succeeded (zero-case cycles included), once each in listing
\* order, and a written CSV holds those rows.  In main.py the first failed
\* case query ends the run with exit code 1 and no output file.
C8_TrackerSkipsMainAborts ==
    /\ variant = "tracker" =>
          /\ FailedAt # {} => raised \in {"none", "OSError"}
          /\ \A k \in FailedAt :
                \E j \in DOMAIN log : /\ log[j].level = "ERROR"
                                      /\ log[j].event = "Error calculating completion"
                                      /\ log[j].key = test_cycles[k]
          /\ pc \in {"report", "visualize", "exited"} /\ test_cycles # <<>>
                => Len(fetched) = Len(test_cycles)
          /\ [k \in DOMAIN stats |-> stats[k].Cycle] = OkCycles(Len(fetched))
          /\ files.csv = "complete" => files.csv_rows = stats
          /\ (pc = "exited" /\ raised = "none" /\ stats # <<>>) =>
                (files.csv = "complete" /\ exit_code = {0})
    /\ (variant = "main" /\ FailedAt # {}) =>
          /\ pc = "exited"
          /\ exit_code = {1}
          /\ files = NoFiles

C8_Witness ==
    /\ variant = "tracker"
    /\ pc = "exited"
    /\ exit_code = {0}
    /\ fetched = <<"ok", "failed", "ok">>
    /\ files.csv = "complete"
    /\ Len(files.csv_rows) = 2
    /\ files.csv_rows[1].Cycle = 1
    /\ files.csv_rows[1].TotalCases = 0
    /\ files.csv_rows[2].Cycle = 3

\* C9: when the listing succeeds with no cycles, report building raises
\* nothing and the process exits with code 0, in both scripts; the tracker
\* script logs a warning.
C9_EmptyListingExitsZero ==
    (listing = "ok" /\ test_cycles = <<>> /\ pc = "exited") =>
       /\ raised = "none"
       /\ exit_code = {0}
       /\ files = NoFiles
       /\ variant = "tracker" =>
             \E j \in DOMAIN log : log[j].level = "WARNING"

\* C10: a filesystem failure while writing the CSV or the chart is fatal and
\* leaves each output path either absent or holding a complete file.
C10_SinkFailureLeavesNoPartialFile ==
    raised = "OSError" =>
       /\ exit_code = {1}
       /\ files.csv \in {"absent", "complete"}
       /\ files.html \in {"absent", "complete"}

====
